---- MODULE Spec2Model ----
(***************************************************************************)
(* Model of the Mira v1.5 backend (src/mira_app.py): the deadline          *)
(* calculator, the Realist listing extractor, the contract overlay, the    *)
(* dashboard status classifier, the lead endpoints (intake, listing        *)
(* upload, contract generation, agent review, status update) and the       *)
(* deadline monitor.                                                       *)
(*                                                                         *)
(* Text is modelled as a sequence of one-character strings, so that        *)
(* str.lower(), str.strip(), str.split('\n') and the `in` substring test   *)
(* are computed character by character.  Dates are proleptic Gregorian     *)
(* ordinals (datetime.date.toordinal()), so that date + timedelta and      *)
(* date - date are integer arithmetic with date.max as the upper limit.    *)
(***************************************************************************)
EXTENDS Integers, Sequences, FiniteSets, TLC

VARIABLES
    today,      \* ordinal returned by datetime.date.today()
    leads,      \* the leads table: row i has id i
    last,       \* history: the last request and the leads table it started from
    resp,       \* outcome of the last call (a return value or a raised error)
    doc,        \* the listing document handed to extract_realist_data
    cdate,      \* contract_date argument of calculate_transaction_deadlines
    ctype,      \* contract_type argument of calculate_transaction_deadlines
    tpl,        \* the template document handed to autopopulate_purchase_agreement
    fields,     \* the fields argument of autopopulate_purchase_agreement
    files,      \* the working directory: the content of temp_realist_<id>.pdf, if any
    uploads,    \* the upload_realist_data requests in flight
    inflight    \* per handler, its requests that have read the table and not answered yet

vars == <<today, leads, last, resp, doc, cdate, ctype, tpl, fields, files, uploads, inflight>>

(***************************************************************************)
(* Bounds of the model.                                                    *)
(***************************************************************************)
DateWindow == 8
Today0 == 739919
MaxLeads == 1
MaxRows == 3
MaxDays == 32
MaxPages == 4
MaxTemplatePages == 3
MaxRequests == 2
MaxInflight == 1

(***************************************************************************)
(* Outcomes of a call.                                                     *)
(***************************************************************************)
NoResp == [kind |-> "none"]
Return(op, v) == [kind |-> "return", op |-> op, value |-> v]
Raise(op, e) == [kind |-> "raise", op |-> op, error |-> e]

\* The history variable: the request being served and the table before it.
NoCall == [op |-> "none", args |-> <<>>, leads |-> <<>>]

\* The parts of the state a specification does not use stay at these values.
NoTemplate == [exists |-> FALSE, readable |-> FALSE, pages |-> <<>>]
NoFields == <<>>
\* Lead ids upload requests name: temp_realist_1.pdf and temp_realist_2.pdf.
UploadIds == {1, 2}
\* No temporary file in the working directory.
NoFiles == [i \in UploadIds |-> <<>>]
NoUploads == <<>>
NoInflight ==
    [generate_contract |-> <<>>, generate_and_download_contract |-> <<>>,
     get_upcoming_deadlines |-> <<>>]
Call(op, args, table) == [op |-> op, args |-> args, leads |-> table]

(***************************************************************************)
(* Characters and strings.                                                 *)
(***************************************************************************)
UpperChars ==
    <<"A","B","C","D","E","F","G","H","I","J","K","L","M",
      "N","O","P","Q","R","S","T","U","V","W","X","Y","Z">>
LowerChars ==
    <<"a","b","c","d","e","f","g","h","i","j","k","l","m",
      "n","o","p","q","r","s","t","u","v","w","x","y","z">>

\* str.isspace() in ASCII: space, \t, \n, \r, \f, vertical tab (0x0B) and the
\* separators 0x1C-0x1F.
SpaceSet == {" ", "\t", "\n", "\r", "\f", "", "", "", "", ""}

\* str.isdigit() on one character (ASCII alphabet).
IsDigit(c) == c \in {"0","1","2","3","4","5","6","7","8","9"}

\* The characters str.strip() removes (ASCII alphabet).
IsSpace(c) == c \in SpaceSet

\* str.lower() on one character (ASCII alphabet).
LowerChar(c) ==
    IF c \in {UpperChars[i] : i \in 1..26}
    THEN LowerChars[CHOOSE i \in 1..26 : UpperChars[i] = c]
    ELSE c

\* str.lower()
lower(s) == [i \in 1..Len(s) |-> LowerChar(s[i])]

\* str.strip(): drop leading and trailing whitespace.
strip(s) ==
    LET keep == {i \in 1..Len(s) : ~IsSpace(s[i])}
    IN  IF keep = {} THEN <<>>
        ELSE LET lo == CHOOSE i \in keep : \A j \in keep : i <= j
                 hi == CHOOSE i \in keep : \A j \in keep : j <= i
             IN  SubSeq(s, lo, hi)

\* sub in s
Contains(s, sub) ==
    \E i \in 0..(Len(s) - Len(sub)) : SubSeq(s, i + 1, i + Len(sub)) = sub

\* any(char.isdigit() for char in s)
AnyDigit(s) == \E i \in 1..Len(s) : IsDigit(s[i])

\* s.split('\n'): always at least one element.
RECURSIVE split(_)
split(s) ==
    LET nl == {i \in 1..Len(s) : s[i] = "\n"}
    IN  IF nl = {} THEN <<s>>
        ELSE LET k == CHOOSE i \in nl : \A j \in nl : i <= j
             IN  <<SubSeq(s, 1, k - 1)>> \o split(SubSeq(s, k + 1, Len(s)))

(***************************************************************************)
(* Dates.                                                                  *)
(***************************************************************************)
\* datetime.date.max.toordinal()
MAXORDINAL == 3652059

\* date + datetime.timedelta(days=n): OverflowError outside date.min..date.max
DateInRange(o) == 0 < o /\ o <= MAXORDINAL

\* (a - b).days
DaysBetween(a, b) == a - b

\* Leap years and month lengths of the proleptic Gregorian calendar.
IsLeap(y) == (y % 4 = 0) /\ ((y % 100 # 0) \/ (y % 400 = 0))
DaysInMonth(y, m) ==
    IF m = 2 THEN (IF IsLeap(y) THEN 29 ELSE 28)
    ELSE IF m \in {4, 6, 9, 11} THEN 30 ELSE 31
DaysBeforeYear(y) ==
    LET z == y - 1 IN z * 365 + (z \div 4) - (z \div 100) + (z \div 400)
RECURSIVE DaysBeforeMonth(_, _)
DaysBeforeMonth(y, m) ==
    IF m = 1 THEN 0 ELSE DaysBeforeMonth(y, m - 1) + DaysInMonth(y, m - 1)

\* date.isoformat(): the year, month and day printed as YYYY-MM-DD.
isoformat(o) ==
    LET y == CHOOSE yy \in ((o \div 366) + 1)..((o \div 365) + 1) :
                 DaysBeforeYear(yy) < o /\ o <= DaysBeforeYear(yy + 1)
        r == o - DaysBeforeYear(y)
        m == CHOOSE mm \in 1..12 :
                 DaysBeforeMonth(y, mm) < r
                 /\ r <= DaysBeforeMonth(y, mm) + DaysInMonth(y, mm)
    IN  [year |-> y, month |-> m, day |-> r - DaysBeforeMonth(y, m)]

(***************************************************************************)
(* calculate_transaction_deadlines (src/mira_app.py 160-175).              *)
(* The returned dict keeps insertion order: a sequence of key/value pairs. *)
(***************************************************************************)
PurchaseOffsetsByName ==
    << <<"appraisal_contingency", 21>>, <<"financing_contingency", 21>>,
       <<"inspection_period", 10>>, <<"settlement_date", 30>>,
       <<"title_commitment", 15>> >>

PurchaseOffsetsLateTitle ==
    << <<"inspection_period", 10>>, <<"financing_contingency", 21>>,
       <<"appraisal_contingency", 21>>, <<"settlement_date", 30>>,
       <<"title_commitment", 51>> >>

PurchaseOffsets ==
    << <<"inspection_period", 10>>, <<"financing_contingency", 21>>,
       <<"appraisal_contingency", 21>>, <<"settlement_date", 30>>,
       <<"title_commitment", 15>> >>

calculate_transaction_deadlines(contract_date, contract_type) ==
    IF contract_type = "purchase"
    THEN IF \E i \in 1..Len(PurchaseOffsets) :
                ~DateInRange(contract_date + PurchaseOffsets[i][2])
         THEN Raise("calculate_transaction_deadlines", "OverflowError")
         ELSE Return("calculate_transaction_deadlines",
                     [i \in 1..Len(PurchaseOffsets) |->
                         [key |-> PurchaseOffsets[i][1],
                          value |-> contract_date + PurchaseOffsets[i][2]]])
    ELSE Return("calculate_transaction_deadlines", <<>>)

(***************************************************************************)
(* Specification of the deadline calculator alone: the arguments are drawn *)
(* from the first dates, dates around today, and the last dates of the     *)
(* calendar; the step applies the function.                                *)
(***************************************************************************)
DateInputs ==
    (1..DateWindow)
    \cup ((Today0 - DateWindow)..(Today0 + DateWindow))
    \cup ((MAXORDINAL - 30 - DateWindow)..MAXORDINAL)

InitDeadlines ==
    /\ cdate \in DateInputs
    /\ ctype \in {"purchase", "Purchase", "lease", ""}
    /\ resp = NoResp
    /\ today = Today0
    /\ leads = <<>>
    /\ last = NoCall
    /\ doc = <<>>
    /\ tpl = NoTemplate
    /\ fields = NoFields
    /\ files = NoFiles
    /\ uploads = NoUploads
    /\ inflight = NoInflight

CalcDeadlines ==
    /\ resp = NoResp
    /\ resp' = calculate_transaction_deadlines(cdate, ctype)
    /\ UNCHANGED <<today, leads, last, doc, cdate, ctype, tpl, fields, files, uploads, inflight>>

NextDeadlines == CalcDeadlines

SpecDeadlines == InitDeadlines /\ [][NextDeadlines]_vars

(***************************************************************************)
(* C1 (as stated): for every valid contract date d and type "purchase" the *)
(* result has exactly the five keys at d+10, d+15, d+21, d+21, d+30; every *)
(* other type gives the empty set without an error.                        *)
(***************************************************************************)
ExpectedPurchase(d) ==
    { [key |-> "inspection_period", value |-> d + 10],
      [key |-> "title_commitment", value |-> d + 15],
      [key |-> "financing_contingency", value |-> d + 21],
      [key |-> "appraisal_contingency", value |-> d + 21],
      [key |-> "settlement_date", value |-> d + 30] }

DeadlinesAsClaimed ==
    /\ resp.kind = "return"
    /\ IF ctype = "purchase"
       THEN /\ Len(resp.value) = 5
            /\ {resp.value[i] : i \in 1..Len(resp.value)} = ExpectedPurchase(cdate)
       ELSE resp.value = <<>>

C1_Original ==
    resp.kind # "none" => DeadlinesAsClaimed

(***************************************************************************)
(* C1 (amended): the same for every contract date d whose latest deadline  *)
(* d+30 is still a date (d no later than 9999-12-01); every other type     *)
(* gives the empty set without an error, for every date.                   *)
(***************************************************************************)
C1_Deadlines ==
    (resp.kind # "none" /\ (ctype = "purchase" => cdate + 30 <= MAXORDINAL))
        => DeadlinesAsClaimed

C1_Witness ==
    /\ resp.kind = "return"
    /\ ctype = "purchase"
    /\ Len(resp.value) = 5
    /\ cdate = Today0

(***************************************************************************)
(* The leads table.  A nullable column is <<>> (NULL) or <<v>>.  The       *)
(* contact columns (name, email, service, raw_data) are copied through by  *)
(* every handler and read by no decision; they are left out.               *)
(***************************************************************************)
Null == <<>>
Some(v) == <<v>>

S_new == <<"n","e","w">>
S_realist_added == <<"r","e","a","l","i","s","t","_","a","d","d","e","d">>
S_contract_drafted == <<"c","o","n","t","r","a","c","t","_","d","r","a","f","t","e","d">>
S_awaiting_review == <<"a","w","a","i","t","i","n","g","_","r","e","v","i","e","w">>
S_docusign_ready == <<"d","o","c","u","s","i","g","n","_","r","e","a","d","y">>
S_pending_signatures == <<"p","e","n","d","i","n","g","_","s","i","g","n","a","t","u","r","e","s">>
S_completed == <<"c","o","m","p","l","e","t","e","d">>
S_needs_attention == <<"n","e","e","d","s","_","a","t","t","e","n","t","i","o","n">>

\* INSERT INTO leads (...) VALUES (..., :status, ...): created_at takes the
\* column default, the current timestamp, or stays NULL when the column has
\* no default (the code reads both: `lead[3].date() if lead[3] else today`).
NewRow(status, created_at) ==
    [status |-> status, created_at |-> created_at, realist_data |-> Null,
     agent_notes |-> Null, reviewed_at |-> Null]

\* The default is a property of the column: all rows of a table have it or
\* none has.
CreatedDefaults(table, now) ==
    IF table = <<>> THEN {Some(now), Null}
    ELSE IF table[1].created_at = Null THEN {Null}
    ELSE {Some(now)}

\* UPDATE leads SET ... WHERE id = :id (no row: nothing changes)
UpdateRow(table, id, f, v) ==
    [i \in 1..Len(table) |-> IF i = id THEN [table[i] EXCEPT ![f] = v] ELSE table[i]]

\* Lead ids a request may name: the rows and one id past them.
LeadIds == 1..(MaxLeads + 1)

\* All orders in which a SELECT without ORDER BY may return the rows `ids`.
Orders(ids) ==
    {p \in [1..Cardinality(ids) -> ids] :
        \A i, j \in 1..Cardinality(ids) : i # j => p[i] # p[j]}

\* The elements of a sequence that satisfy Keep, in order.
RECURSIVE FilterIdx(_, _, _)
FilterIdx(n, k, keep) ==
    IF k > n THEN <<>>
    ELSE (IF k \in keep THEN <<k>> ELSE <<>>) \o FilterIdx(n, k + 1, keep)

(***************************************************************************)
(* tally_webhook (src/mira_app.py 293-330): one row with status 'new'.     *)
(***************************************************************************)
tally_webhook ==
    /\ Len(leads) < MaxLeads
    /\ \E c \in CreatedDefaults(leads, today) :
          leads' = Append(leads, NewRow(Some(S_new), c))
    /\ last' = Call("tally_webhook", <<>>, leads)
    /\ resp' = Return("tally_webhook", [success |-> TRUE])
    /\ UNCHANGED <<today, doc, cdate, ctype, tpl, fields, files, uploads, inflight>>

(***************************************************************************)
(* autopopulate_purchase_agreement (src/mira_app.py 41-85).  A document    *)
(* file exists or not, parses as a PDF or not, and a parsed one is a       *)
(* sequence of pages; a page is the sequence of the marks of its content   *)
(* stream.  The fields map holds NULL for an absent key.                   *)
(***************************************************************************)
Template(pages) == [exists |-> TRUE, readable |-> TRUE, pages |-> pages]
TemplateMissing == [exists |-> FALSE, readable |-> FALSE, pages |-> <<>>]
TemplateCorrupt == [exists |-> TRUE, readable |-> FALSE, pages |-> <<>>]

\* fields.get(key, "")
Get(map, key) == IF map[key] = Null THEN <<>> ELSE map[key][1]

\* The canvas of the overlay: the four drawString calls, in order.
overlay_page(f) ==
    << [x |-> 90, y |-> 735, text |-> Get(f, "buyer_name")],
       [x |-> 140, y |-> 695, text |-> Get(f, "property_address")],
       [x |-> 100, y |-> 560, text |-> Get(f, "price")],
       [x |-> 500, y |-> 695, text |-> Get(f, "mls")] >>

\* base_page.merge_page(overlay_pdf.pages[0]): the overlay's content is
\* drawn after the page's own content.
merge_page(base_page, overlay) == base_page \o overlay

\* for i in range(1, len(base_pdf.pages)): writer.add_page(base_pdf.pages[i])
rest_pages_from_first(pages) == pages

rest_pages(pages) == SubSeq(pages, 2, Len(pages))

\* The pages written to output_pdf_path, or the error raised.
autopopulate_purchase_agreement(template, f) ==
    IF ~template.exists
    THEN Raise("autopopulate_purchase_agreement", "FileNotFoundError")
    ELSE IF ~template.readable
    THEN Raise("autopopulate_purchase_agreement", "PdfReadError")
    ELSE IF template.pages = <<>>
    THEN Raise("autopopulate_purchase_agreement", "IndexError")
    ELSE Return("autopopulate_purchase_agreement",
             <<merge_page(template.pages[1], overlay_page(f))>>
                 \o rest_pages(template.pages))

\* Page contents of the templates tried, and the values of the fields.
Mark_heading == <<"P","U","R","C","H","A","S","E">>
Mark_sign == <<"S","i","g","n",":">>

TemplatePages ==
    {<<[x |-> 72, y |-> 750, text |-> Mark_heading]>>,
     <<[x |-> 72, y |-> 700, text |-> <<"T","e","r","m","s">>],
       [x |-> 72, y |-> 100, text |-> Mark_sign]>>,
     <<>>}

TemplateInputs ==
    {TemplateMissing, TemplateCorrupt}
    \cup {Template(p) : p \in UNION {[1..n -> TemplatePages] : n \in 0..MaxTemplatePages}}

F_buyer == <<"A","n","n"," ","L","e","e">>

FieldInputs ==
    [buyer_name : {Some(F_buyer)},
     email : {Null},
     property_address :
         {Null, Some(<<>>), Some(<<"1","2","3"," ","M","a","i","n"," ","S","t">>)},
     price : {Null, Some(<<"$","4","5","0",",","0","0","0">>)},
     mls : {Null, Some(<<"9","9","8","8">>)}]

InitOverlay ==
    /\ tpl \in TemplateInputs
    /\ fields \in FieldInputs
    /\ resp = NoResp
    /\ today = Today0
    /\ leads = <<>>
    /\ last = NoCall
    /\ doc = <<>>
    /\ cdate = Today0
    /\ ctype = "purchase"
    /\ files = NoFiles
    /\ uploads = NoUploads
    /\ inflight = NoInflight

Overlay ==
    /\ resp = NoResp
    /\ resp' = autopopulate_purchase_agreement(tpl, fields)
    /\ UNCHANGED <<today, leads, last, doc, cdate, ctype, tpl, fields, files, uploads, inflight>>

NextOverlay == Overlay

SpecOverlay == InitOverlay /\ [][NextOverlay]_vars

(***************************************************************************)
(* C11: for a template of N >= 1 pages and any field map, the output has   *)
(* exactly N pages; its page 1 is the template's page 1 followed by the    *)
(* four overlay marks (each field's value, or "" for an absent field), and *)
(* its pages 2..N are the template's pages 2..N in their order.            *)
(***************************************************************************)
OverlayCalled == resp.kind # "none"

FieldText(key) == IF fields[key] = Null THEN <<>> ELSE fields[key][1]

OverlayMarks == <<"buyer_name", "property_address", "price", "mls">>

C11_OverlayKeepsPages ==
    (OverlayCalled /\ tpl.exists /\ tpl.readable /\ Len(tpl.pages) >= 1) =>
        /\ resp.kind = "return"
        /\ Len(resp.value) = Len(tpl.pages)
        /\ LET base == tpl.pages[1]
               out == resp.value[1]
           IN  /\ Len(out) = Len(base) + 4
               /\ SubSeq(out, 1, Len(base)) = base
               /\ \A k \in 1..4 : out[Len(base) + k].text = FieldText(OverlayMarks[k])
        /\ \A k \in 2..Len(tpl.pages) : resp.value[k] = tpl.pages[k]

\* A three-page template with different second and third pages is filled.
C11_Witness ==
    /\ OverlayCalled
    /\ tpl.readable
    /\ Len(tpl.pages) = 3
    /\ tpl.pages[2] # tpl.pages[3]
    /\ tpl.pages[1] # tpl.pages[2]
    /\ fields.price # Null
    /\ resp.kind = "return"
    /\ Len(resp.value) = 3

(***************************************************************************)
(* generate_real_contract (src/mira_app.py 178-208) and generate_contract  *)
(* (382-444).  The template file is one of TemplateStates: a two-page      *)
(* agreement, no file at all (os.path.exists is false: the demo document   *)
(* is written), a file that does not parse, or a PDF without pages.        *)
(***************************************************************************)
TemplateOk ==
    Template(<< <<[x |-> 72, y |-> 750, text |-> Mark_heading]>>,
                <<[x |-> 72, y |-> 100, text |-> Mark_sign]>> >>)

TemplateStates == {TemplateOk, TemplateMissing, TemplateCorrupt, Template(<<>>)}

\* json.dumps(realist_data) and json.loads of the stored text
json_dumps(record) == [json |-> record]
json_loads(stored) == stored.json

\* realist_data = {}; if lead_dict["realist_data"]: realist_data = json.loads(...)
parsed_realist_data(row) ==
    IF row.realist_data = Null THEN Null ELSE Some(json_loads(row.realist_data[1]))

\* realist_data.get(key, "")
RealistGet(realist_data, key) ==
    IF realist_data = Null THEN <<>> ELSE realist_data[1][key]

\* The fields prepared for the overlay.  Every modelled lead carries the
\* same name and no email.
contract_fields(realist_data) ==
    [buyer_name |-> Some(F_buyer),
     email |-> Some(<<>>),
     property_address |-> Some(RealistGet(realist_data, "property_address")),
     price |-> Some(RealistGet(realist_data, "listing_price")),
     mls |-> Some(RealistGet(realist_data, "mls_number"))]

generate_real_contract(lead_id, realist_data, template) ==
    IF ~template.exists
    THEN Return("generate_real_contract", [file |-> "demo_contract", id |-> lead_id])
    ELSE LET out == autopopulate_purchase_agreement(template,
                                                    contract_fields(realist_data))
         IN  IF out.kind = "raise"
             THEN Raise("generate_real_contract", out.error)
             ELSE Return("generate_real_contract", [file |-> "PA_filled", id |-> lead_id])

(***************************************************************************)
(* A handler runs as a coroutine: between two database accesses it awaits  *)
(* (the connection closing, engine.dispose(), the next connection opening) *)
(* and other requests are served.  A request that has read the table and   *)
(* has not answered yet is a record of `inflight`, under the name of its   *)
(* handler, holding what it read.  At most MaxInflight requests of one of  *)
(* these handlers, and MaxRequests requests of all handlers, the uploads   *)
(* included, are in flight together.                                       *)
(***************************************************************************)
\* The number of requests in flight.
InFlight ==
    Len(uploads) + Len(inflight.generate_contract)
    + Len(inflight.generate_and_download_contract)
    + Len(inflight.get_upcoming_deadlines)

RemoveAt(s, p) == SubSeq(s, 1, p - 1) \o SubSeq(s, p + 1, Len(s))

\* SELECT id, name, email, service, status, realist_data FROM leads WHERE id = :id
\* and result.fetchone(): the columns the handler uses later, or no row.
select_lead(table, lead_id) ==
    IF lead_id \in 1..Len(table)
    THEN Some([status |-> table[lead_id].status,
               realist_data |-> table[lead_id].realist_data])
    ELSE Null

\* Lines 388-401: the SELECT; without a row the request ends in HTTP 404.
generate_contract_select ==
    \E lead_id \in LeadIds :
        LET row == select_lead(leads, lead_id)
        IN  IF row = Null
            THEN /\ resp' = Raise("generate_contract", "HTTP 404")
                 /\ last' = Call("generate_contract", [lead_id |-> lead_id], leads)
                 /\ UNCHANGED <<today, leads, doc, cdate, ctype, tpl, fields, files,
                                uploads, inflight>>
            ELSE /\ InFlight < MaxRequests
                 /\ Len(inflight.generate_contract) < MaxInflight
                 /\ inflight' =
                        [inflight EXCEPT !.generate_contract =
                            Append(@, [pc |-> "selected", lead_id |-> lead_id,
                                       row |-> row[1]])]
                 /\ UNCHANGED <<today, leads, last, resp, doc, cdate, ctype, tpl,
                                fields, files, uploads>>

\* Lines 403-426, after engine.dispose(): the contract is written from the
\* row read before, and datetime.date.today() is read now.
generate_contract_compute(p) ==
    /\ inflight.generate_contract[p].pc = "selected"
    /\ \E template \in TemplateStates :
          LET q == inflight.generate_contract[p]
              realist_data == parsed_realist_data(q.row)
              contract == generate_real_contract(q.lead_id, realist_data, template)
              deadlines == calculate_transaction_deadlines(today, "purchase")
              args == [lead_id |-> q.lead_id, template |-> template]
          IN  IF contract.kind = "raise" \/ deadlines.kind = "raise"
              THEN /\ resp' = Raise("generate_contract",
                                 IF contract.kind = "raise" THEN contract.error
                                 ELSE deadlines.error)
                   /\ last' = Call("generate_contract", args, leads)
                   /\ inflight' = [inflight EXCEPT !.generate_contract = RemoveAt(@, p)]
              ELSE /\ inflight' =
                          [inflight EXCEPT !.generate_contract[p] =
                              [pc |-> "computed",
                               lead_id |-> q.lead_id, row |-> q.row,
                               template |-> template,
                               contract |-> contract.value,
                               deadlines |-> deadlines.value]]
                   /\ UNCHANGED <<last, resp>>
    /\ UNCHANGED <<today, leads, doc, cdate, ctype, tpl, fields, files, uploads>>

\* Lines 428-444: UPDATE leads SET status = 'contract_drafted' WHERE id = :id
\* and the response, which carries the row and the deadlines of the earlier
\* steps.
generate_contract_commit(p) ==
    /\ inflight.generate_contract[p].pc = "computed"
    /\ LET q == inflight.generate_contract[p]
       IN  /\ leads' = UpdateRow(leads, q.lead_id, "status", Some(S_contract_drafted))
           /\ resp' = Return("generate_contract",
                         [lead_id |-> q.lead_id,
                          contract_created |-> q.contract,
                          lead_status |-> q.row.status,
                          realist_data |-> parsed_realist_data(q.row),
                          deadlines |-> q.deadlines])
           /\ last' = Call("generate_contract",
                         [lead_id |-> q.lead_id, template |-> q.template], leads)
    /\ inflight' = [inflight EXCEPT !.generate_contract = RemoveAt(@, p)]
    /\ UNCHANGED <<today, doc, cdate, ctype, tpl, fields, files, uploads>>

generate_contract ==
    \/ generate_contract_select
    \/ \E p \in 1..Len(inflight.generate_contract) : generate_contract_compute(p)
    \/ \E p \in 1..Len(inflight.generate_contract) : generate_contract_commit(p)

(***************************************************************************)
(* generate_and_download_contract (src/mira_app.py 500-555).               *)
(***************************************************************************)
\* Lines 506-518: the SELECT; without a row the request ends in HTTP 404.
\* Of the row, the handler later reads realist_data only.
generate_and_download_select ==
    \E lead_id \in LeadIds :
        LET row == select_lead(leads, lead_id)
        IN  IF row = Null
            THEN /\ resp' = Raise("generate_and_download_contract", "HTTP 404")
                 /\ last' = Call("generate_and_download_contract",
                               [lead_id |-> lead_id], leads)
                 /\ UNCHANGED <<today, leads, doc, cdate, ctype, tpl, fields, files,
                                uploads, inflight>>
            ELSE /\ InFlight < MaxRequests
                 /\ Len(inflight.generate_and_download_contract) < MaxInflight
                 /\ inflight' =
                        [inflight EXCEPT !.generate_and_download_contract =
                            Append(@, [pc |-> "selected", lead_id |-> lead_id,
                                       realist_data |-> row[1].realist_data])]
                 /\ UNCHANGED <<today, leads, last, resp, doc, cdate, ctype, tpl,
                                fields, files, uploads>>

\* Lines 520-555: the contract is written from the row read before, the
\* status is updated and the file just written is the response (it exists,
\* so the HTTP 500 branch is not taken).
generate_and_download_finish(p) ==
    /\ \E template \in TemplateStates :
          LET q == inflight.generate_and_download_contract[p]
              contract == generate_real_contract(q.lead_id, parsed_realist_data(q),
                                                 template)
          IN  /\ IF contract.kind = "raise"
                 THEN /\ resp' = Raise("generate_and_download_contract", contract.error)
                      /\ UNCHANGED leads
                 ELSE /\ leads' = UpdateRow(leads, q.lead_id, "status",
                                            Some(S_contract_drafted))
                      /\ resp' = Return("generate_and_download_contract",
                                    [lead_id |-> q.lead_id, path |-> contract.value])
              /\ last' = Call("generate_and_download_contract",
                            [lead_id |-> q.lead_id, template |-> template], leads)
    /\ inflight' = [inflight EXCEPT !.generate_and_download_contract = RemoveAt(@, p)]
    /\ UNCHANGED <<today, doc, cdate, ctype, tpl, fields, files, uploads>>

generate_and_download_contract ==
    \/ generate_and_download_select
    \/ \E p \in 1..Len(inflight.generate_and_download_contract) :
          generate_and_download_finish(p)

(***************************************************************************)
(* get_upcoming_deadlines (src/mira_app.py 605-656).                       *)
(***************************************************************************)
ActiveStatuses == {S_contract_drafted, S_docusign_ready, S_pending_signatures}

\* WHERE status IN ('contract_drafted', 'docusign_ready', 'pending_signatures')
IsActive(row) == row.status # Null /\ row.status[1] \in ActiveStatuses

\* if 0 <= days_until <= 3
InWindowExclusive(days_until) == 0 <= days_until /\ days_until < 3

InWindow(days_until) == 0 <= days_until /\ days_until <= 3

\* The loop over deadlines.items(): the deadlines in the window, in the
\* order of the dict.
approaching_deadlines(deadlines, now) ==
    LET keep == {k \in 1..Len(deadlines) :
                    InWindow(DaysBetween(deadlines[k].value, now))}
        idx == FilterIdx(Len(deadlines), 1, keep)
    IN  [j \in 1..Len(idx) |->
            [type |-> deadlines[idx[j]].key,
             date |-> isoformat(deadlines[idx[j]].value),
             days_until |-> DaysBetween(deadlines[idx[j]].value, now)]]

\* contract_date = lead[3].date() if lead[3] else today
monitor_contract_date(row, now) ==
    IF row.created_at # Null THEN row.created_at[1] ELSE now

\* Lines 613-622: the SELECT of the active rows, in the order the database
\* returns them (there is no ORDER BY), with the columns the handler uses.
select_active_leads(table, order) ==
    [k \in 1..Len(order) |->
        [lead_id |-> order[k],
         status |-> table[order[k]].status[1],
         created_at |-> table[order[k]].created_at]]

\* Lines 626-656: the summary of the rows fetched, as of the day `now`.
get_upcoming_deadlines_result(active_leads, now) ==
    LET calc(i) == calculate_transaction_deadlines(
                       monitor_contract_date(active_leads[i], now), "purchase")
    IN  IF \E i \in 1..Len(active_leads) : calc(i).kind = "raise"
        THEN Raise("get_upcoming_deadlines", "OverflowError")
        ELSE LET appr(i) == approaching_deadlines(calc(i).value, now)
                 keep == {i \in 1..Len(active_leads) : appr(i) # <<>>}
                 idx == FilterIdx(Len(active_leads), 1, keep)
             IN  Return("get_upcoming_deadlines",
                    [upcoming_deadlines |->
                        [j \in 1..Len(idx) |->
                            [lead_id |-> active_leads[idx[j]].lead_id,
                             status |-> active_leads[idx[j]].status,
                             approaching_deadlines |-> appr(idx[j])]],
                     total_active_transactions |-> Len(active_leads)])

\* Lines 610-622: the rows are fetched.
get_upcoming_deadlines_select ==
    \E order \in Orders({i \in 1..Len(leads) : IsActive(leads[i])}) :
        /\ InFlight < MaxRequests
        /\ Len(inflight.get_upcoming_deadlines) < MaxInflight
        /\ inflight' =
               [inflight EXCEPT !.get_upcoming_deadlines =
                   Append(@, [pc |-> "selected",
                              active_leads |-> select_active_leads(leads, order)])]
        /\ UNCHANGED <<today, leads, last, resp, doc, cdate, ctype, tpl, fields,
                       files, uploads>>

\* Lines 624-656, after engine.dispose(): datetime.date.today() is read now
\* and the rows fetched before are summarised.
get_upcoming_deadlines_answer(p) ==
    /\ LET q == inflight.get_upcoming_deadlines[p]
       IN  /\ resp' = get_upcoming_deadlines_result(q.active_leads, today)
           /\ last' = Call("get_upcoming_deadlines",
                         [active_leads |-> q.active_leads], leads)
    /\ inflight' = [inflight EXCEPT !.get_upcoming_deadlines = RemoveAt(@, p)]
    /\ UNCHANGED <<today, leads, doc, cdate, ctype, tpl, fields, files, uploads>>

get_upcoming_deadlines ==
    \/ get_upcoming_deadlines_select
    \/ \E p \in 1..Len(inflight.get_upcoming_deadlines) :
          get_upcoming_deadlines_answer(p)

(***************************************************************************)
(* The clock: datetime.date.today() moves on by a day.                     *)
(***************************************************************************)
Tick ==
    /\ today < Today0 + MaxDays
    /\ today' = today + 1
    /\ resp' = NoResp
    /\ last' = Call("tick", <<>>, leads)
    /\ UNCHANGED <<leads, doc, cdate, ctype, tpl, fields, files, uploads, inflight>>

(***************************************************************************)
(* Specification of deadline monitoring: leads arrive, contracts are       *)
(* generated, days pass, and the monitor is polled; a contract request and *)
(* a monitoring request may be in flight together.                         *)
(***************************************************************************)
InitMonitor ==
    /\ today = Today0
    /\ leads = <<>>
    /\ last = NoCall
    /\ resp = NoResp
    /\ doc = <<>>
    /\ cdate = Today0
    /\ ctype = "purchase"
    /\ tpl = NoTemplate
    /\ fields = NoFields
    /\ files = NoFiles
    /\ uploads = NoUploads
    /\ inflight = NoInflight

NextMonitor ==
    \/ tally_webhook
    \/ generate_contract
    \/ get_upcoming_deadlines
    \/ Tick

SpecMonitor == InitMonitor /\ [][NextMonitor]_vars

(***************************************************************************)
(* C2: in deadline monitoring, a deadline of a lead the monitor examines   *)
(* (a row it fetched) is listed as approaching if and only if              *)
(* 0 <= (deadline - today) <= 3 days, today being the day the monitor read *)
(* when it answered, and the days_until reported for it is that difference.*)
(***************************************************************************)
MonitorReturned ==
    /\ last.op = "get_upcoming_deadlines"
    /\ resp.kind = "return"
    /\ resp.op = "get_upcoming_deadlines"

\* The approaching entries reported for lead i under deadline name `key`.
Reported(i, key) ==
    LET up == resp.value.upcoming_deadlines
    IN  {a \in UNION {{up[j].approaching_deadlines[k] :
                          k \in 1..Len(up[j].approaching_deadlines)} :
                      j \in {jj \in 1..Len(up) : up[jj].lead_id = i}} :
            a.type = key}

\* The rows the answering request had fetched.
Examined == last.args.active_leads

C2_ApproachingWindow ==
    MonitorReturned =>
        \A k \in 1..Len(Examined) :
            \A dl \in ExpectedPurchase(monitor_contract_date(Examined[k], today)) :
                LET diff == dl.value - today
                    i == Examined[k].lead_id
                IN  /\ (Reported(i, dl.key) # {}) <=> (0 <= diff /\ diff <= 3)
                    /\ \A a \in Reported(i, dl.key) : a.days_until = diff

\* A deadline exactly three days ahead is listed.
C2_Witness ==
    /\ MonitorReturned
    /\ \E k \in 1..Len(Examined) :
          \E a \in Reported(Examined[k].lead_id, "title_commitment") : a.days_until = 3

(***************************************************************************)
(* C3: the approaching deadlines of a lead are listed in the insertion     *)
(* order of the deadline names (inspection_period, financing_contingency,  *)
(* appraisal_contingency, settlement_date, title_commitment), whatever     *)
(* their dates.                                                            *)
(***************************************************************************)
NameOrder ==
    <<"inspection_period", "financing_contingency", "appraisal_contingency",
      "settlement_date", "title_commitment">>

NamePos(n) == CHOOSE k \in 1..Len(NameOrder) : NameOrder[k] = n

C3_InsertionOrder ==
    MonitorReturned =>
        \A j \in 1..Len(resp.value.upcoming_deadlines) :
            LET a == resp.value.upcoming_deadlines[j].approaching_deadlines
            IN  /\ \A k \in 1..Len(a) : a[k].type \in {NameOrder[n] : n \in 1..5}
                /\ \A k, l \in 1..Len(a) :
                      k < l => NamePos(a[k].type) < NamePos(a[l].type)

\* Two deadlines are listed for one lead.
C3_Witness ==
    /\ MonitorReturned
    /\ \E j \in 1..Len(resp.value.upcoming_deadlines) :
          LET a == resp.value.upcoming_deadlines[j].approaching_deadlines
          IN  /\ Len(a) = 2
              /\ a[1].type = "financing_contingency"
              /\ a[2].type = "appraisal_contingency"
              /\ a[1].days_until = 0

(***************************************************************************)
(* C16: the deadline set monitoring computes for a lead with a generated   *)
(* contract is the set contract generation returned for that contract:     *)
(* the deadlines of the contract date, type purchase.                      *)
(***************************************************************************)
MonitorSet(row, now) ==
    calculate_transaction_deadlines(monitor_contract_date(row, now), "purchase")

C16_MonitorUsesContractDate ==
    (resp.kind = "return" /\ resp.op = "generate_contract") =>
        LET m == MonitorSet(leads[resp.value.lead_id], today)
        IN  /\ m.kind = "return"
            /\ m.value = resp.value.deadlines

(***************************************************************************)
(* extract_realist_data (src/mira_app.py 88-157).                          *)
(***************************************************************************)
\* The keywords of the line tests.
K_address == <<"a","d","d","r","e","s","s">>
K_dollar == <<"$">>
K_price == <<"p","r","i","c","e">>
K_list == <<"l","i","s","t">>
K_mls == <<"m","l","s">>
K_sq == <<"s","q">>
K_ft == <<"f","t">>
K_lot_size == <<"l","o","t"," ","s","i","z","e">>
K_year_built == <<"y","e","a","r"," ","b","u","i","l","t">>
K_bed == <<"b","e","d">>
K_bath == <<"b","a","t","h">>
K_type == <<"t","y","p","e">>
K_tax_id == <<"t","a","x"," ","i","d">>
K_parcel == <<"p","a","r","c","e","l">>
K_legal == <<"l","e","g","a","l">>
K_subdivision == <<"s","u","b","d","i","v","i","s","i","o","n">>
K_zoning == <<"z","o","n","i","n","g">>
K_assessed == <<"a","s","s","e","s","s","e","d">>
K_assessment == <<"a","s","s","e","s","s","m","e","n","t">>
K_owner == <<"o","w","n","e","r">>

\* extracted_data as initialised: the 17 fields, all "".
EmptyRecord ==
    [property_address |-> <<>>, listing_price |-> <<>>, mls_number |-> <<>>,
     square_footage |-> <<>>, lot_size |-> <<>>, year_built |-> <<>>,
     bedrooms |-> <<>>, bathrooms |-> <<>>, property_type |-> <<>>,
     tax_id |-> <<>>, legal_description |-> <<>>, subdivision |-> <<>>,
     zoning |-> <<>>, assessed_value |-> <<>>, owner_of_record |-> <<>>,
     listing_agent |-> <<>>, listing_office |-> <<>>]

\* line_lower = line.lower().strip()
line_lower_of(line) == strip(lower(line))

\* The value a matching line stores: line.strip()
StoredValueRaw(line) == line

StoredValue(line) == strip(line)

\* extracted_data[f] = ... : a later matching line overwrites the field.
AssignKeepFirst(old, new) == IF old = <<>> THEN new ELSE old

Assign(old, new) == new

\* if '$' in line and ('price' in line_lower or 'list' in line_lower)
IsListingPriceLoose(line, ll) ==
    Contains(line, K_dollar) \/ Contains(ll, K_price) \/ Contains(ll, K_list)

IsListingPrice(line, ll) ==
    Contains(line, K_dollar) /\ (Contains(ll, K_price) \/ Contains(ll, K_list))

\* The fifteen `if` statements of the loop body, applied to one line.
apply_line(rec, line) ==
    LET ll == line_lower_of(line)
        v == StoredValue(line)
        set(old, test) == IF test THEN Assign(old, v) ELSE old
    IN  [property_address |->
             set(rec.property_address, Contains(ll, K_address) /\ AnyDigit(line)),
         listing_price |-> set(rec.listing_price, IsListingPrice(line, ll)),
         mls_number |-> set(rec.mls_number, Contains(ll, K_mls) /\ AnyDigit(line)),
         square_footage |->
             set(rec.square_footage, Contains(ll, K_sq) /\ Contains(ll, K_ft)),
         lot_size |-> set(rec.lot_size, Contains(ll, K_lot_size)),
         year_built |-> set(rec.year_built, Contains(ll, K_year_built)),
         bedrooms |-> set(rec.bedrooms, Contains(ll, K_bed)),
         bathrooms |-> set(rec.bathrooms, Contains(ll, K_bath)),
         property_type |-> set(rec.property_type, Contains(ll, K_type)),
         tax_id |-> set(rec.tax_id, Contains(ll, K_tax_id) \/ Contains(ll, K_parcel)),
         legal_description |-> set(rec.legal_description, Contains(ll, K_legal)),
         subdivision |-> set(rec.subdivision, Contains(ll, K_subdivision)),
         zoning |-> set(rec.zoning, Contains(ll, K_zoning)),
         assessed_value |->
             set(rec.assessed_value,
                 Contains(ll, K_assessed) \/ Contains(ll, K_assessment)),
         owner_of_record |-> set(rec.owner_of_record, Contains(ll, K_owner)),
         listing_agent |-> rec.listing_agent,
         listing_office |-> rec.listing_office]

\* for line in lines: ...
RECURSIVE scan_lines(_, _, _)
scan_lines(lines, k, rec) ==
    IF k > Len(lines) THEN rec
    ELSE scan_lines(lines, k + 1, apply_line(rec, lines[k]))

(***************************************************************************)
(* A listing document: whether pdfplumber.open succeeds, and for each page *)
(* what extract_text() does: returns text, returns None, or raises.        *)
(***************************************************************************)
PageText(t) == [kind |-> "text", text |-> t]
PageRaise == [kind |-> "raise", text |-> <<>>]

Min(a, b) == IF a <= b THEN a ELSE b

\* text_content += pdf.pages[page_num].extract_text() or ""
RECURSIVE concat_pages(_, _)
concat_pages(pages, n) ==
    IF n = 0 THEN <<>>
    ELSE concat_pages(pages, n - 1) \o pages[n].text

\* range(min(3, len(pdf.pages)))
pages_read(d) == Min(3, Len(d.pages))

\* The try block up to `lines = ...`: any failure leaves the whole text unread.
read_text_partial(d) ==
    IF ~d.opens THEN [ok |-> FALSE, text |-> <<>>]
    ELSE LET bad == {i \in 1..pages_read(d) : d.pages[i].kind = "raise"}
         IN  IF bad = {} THEN [ok |-> TRUE, text |-> concat_pages(d.pages, pages_read(d))]
             ELSE [ok |-> TRUE,
                   text |-> concat_pages(d.pages,
                                (CHOOSE i \in bad : \A j \in bad : i <= j) - 1)]

read_text(d) ==
    IF ~d.opens THEN [ok |-> FALSE, text |-> <<>>]
    ELSE IF \E i \in 1..pages_read(d) : d.pages[i].kind = "raise"
    THEN [ok |-> FALSE, text |-> <<>>]
    ELSE [ok |-> TRUE, text |-> concat_pages(d.pages, pages_read(d))]

\* except Exception: the initial record is returned.
extract_realist_data(d) ==
    LET r == read_text(d)
    IN  IF r.ok THEN scan_lines(split(r.text), 1, EmptyRecord) ELSE EmptyRecord

(***************************************************************************)
(* Specification of the extractor alone: the document is drawn from the    *)
(* sequences of at most MaxPages pages over a vocabulary of page outcomes; *)
(* the step applies the function.                                          *)
(***************************************************************************)
Page_Example ==
    <<"A","d","d","r","e","s","s",":"," ","1","2","3"," ","M","a","i","n",
      " ","S","t","\n","L","i","s","t"," ","P","r","i","c","e",":"," ","$",
      "4","5","0",",","0","0","0","\n","M","L","S","#"," ","9","9","8","8",
      "1","2","3","4">>
Page_Padded ==
    <<" "," ","A","d","d","r","e","s","s",":"," ","9"," ","O","a","k"," ",
      "A","v","e"," "," ","\n","O","w","n","e","r",":"," ","B","o","b","\n">>
Page_Agent ==
    <<"L","i","s","t","i","n","g"," ","A","g","e","n","t",":"," ","A","n",
      "n"," ","L","e","e","\n","A","D","D","R","E","S","S"," ","T","B","D">>
Page_Rooms ==
    <<"3"," ","B","e","d"," ","2"," ","B","a","t","h"," ","9","0","0"," ",
      "S","q"," ","F","t","\n"," ","\t","","\n","L","o","t"," ","S","i","z",
      "e",":"," ","2"," ","a","c","\n">>
Page_Tax ==
    <<"T","a","x"," ","I","D"," ","5","5","\n","Z","o","n","i","n","g"," ",
      "R","1"," ","T","y","p","e"," ","S","F","R","\n","L","e","g","a","l",
      ":"," ","S","u","b","d","i","v","i","s","i","o","n"," ","P","i","n",
      "e","\n","Y","e","a","r"," ","B","u","i","l","t"," ","1","9","9","0",
      "\n","A","s","s","e","s","s","e","d"," ","$","9","\n","P","a","r",
      "c","e","l"," ","7","\n","A","s","s","e","s","s","m","e","n","t"," ",
      "d","u","e">>

PageOutcomes ==
    {PageText(Page_Example), PageText(Page_Padded), PageText(Page_Agent),
     PageText(Page_Rooms), PageText(Page_Tax), [kind |-> "none", text |-> <<>>],
     PageRaise}

Unreadable == [opens |-> FALSE, pages |-> <<>>]

DocInputs ==
    {Unreadable}
    \cup {[opens |-> TRUE, pages |-> p] :
             p \in UNION {[1..n -> PageOutcomes] : n \in 0..MaxPages}}

InitExtract ==
    /\ doc \in DocInputs
    /\ resp = NoResp
    /\ today = Today0
    /\ leads = <<>>
    /\ last = NoCall
    /\ cdate = Today0
    /\ ctype = "purchase"
    /\ tpl = NoTemplate
    /\ fields = NoFields
    /\ files = NoFiles
    /\ uploads = NoUploads
    /\ inflight = NoInflight

Extract ==
    /\ resp = NoResp
    /\ resp' = Return("extract_realist_data", extract_realist_data(doc))
    /\ UNCHANGED <<today, leads, last, doc, cdate, ctype, tpl, fields, files, uploads, inflight>>

NextExtract == Extract

SpecExtract == InitExtract /\ [][NextExtract]_vars

(***************************************************************************)
(* The claims about the extractor are stated over the lines of the text    *)
(* the function scans: the text of the pages it reads, split at newlines.  *)
(* The field tests below are those of the specification, section 4.2       *)
(* (its address, bedroom_count and bathroom_count are the record's         *)
(* property_address, bedrooms and bathrooms).                              *)
(***************************************************************************)
Fields17 ==
    {"property_address", "listing_price", "mls_number", "square_footage",
     "lot_size", "year_built", "bedrooms", "bathrooms", "property_type",
     "tax_id", "legal_description", "subdivision", "zoning", "assessed_value",
     "owner_of_record", "listing_agent", "listing_office"}

ExtractReturned == resp.kind = "return" /\ resp.op = "extract_realist_data"

ReadFails ==
    \/ ~doc.opens
    \/ \E i \in 1..Min(3, Len(doc.pages)) : doc.pages[i].kind = "raise"

InputLines ==
    IF ReadFails THEN <<>>
    ELSE split(concat_pages(doc.pages, Min(3, Len(doc.pages))))

\* Does `line`, whose lower-cased trimmed copy is `l`, satisfy the test of f?
SpecMatches(f, line, l) ==
    LET has(w) == Contains(l, w)
    IN  CASE f = "property_address" -> has(K_address) /\ AnyDigit(line)
          [] f = "listing_price" -> Contains(line, K_dollar) /\ (has(K_price) \/ has(K_list))
          [] f = "mls_number" -> has(K_mls) /\ AnyDigit(line)
          [] f = "square_footage" -> has(K_sq) /\ has(K_ft)
          [] f = "lot_size" -> has(K_lot_size)
          [] f = "year_built" -> has(K_year_built)
          [] f = "bedrooms" -> has(K_bed)
          [] f = "bathrooms" -> has(K_bath)
          [] f = "property_type" -> has(K_type)
          [] f = "tax_id" -> has(K_tax_id) \/ has(K_parcel)
          [] f = "legal_description" -> has(K_legal)
          [] f = "subdivision" -> has(K_subdivision)
          [] f = "zoning" -> has(K_zoning)
          [] f = "assessed_value" -> has(K_assessed) \/ has(K_assessment)
          [] f = "owner_of_record" -> has(K_owner)
          [] OTHER -> FALSE

LowerTrimmed(lines) == [k \in 1..Len(lines) |-> strip(lower(lines[k]))]

MatchingLines(lines, low, f) ==
    {k \in 1..Len(lines) : SpecMatches(f, lines[k], low[k])}

Line_Address123 == <<"A","d","d","r","e","s","s",":"," ","1","2","3"," ","M","a","i","n"," ","S","t">>
Line_ListPrice == <<"L","i","s","t"," ","P","r","i","c","e",":"," ","$","4","5","0",",","0","0","0">>
Line_Mls == <<"M","L","S","#"," ","9","9","8","8","1","2","3","4">>
Line_Address9 == <<"A","d","d","r","e","s","s",":"," ","9"," ","O","a","k"," ","A","v","e">>

(***************************************************************************)
(* C7: for every input text the extractor returns (it never raises) a      *)
(* record of the 17 fields, each "" or the trimmed, non-empty text of some *)
(* line of the input.                                                      *)
(***************************************************************************)
C7_FieldsAreTrimmedLines ==
    resp.kind # "none" =>
        LET lines == InputLines
            trimmed == {strip(lines[k]) : k \in 1..Len(lines)} \ {<<>>}
        IN  /\ ExtractReturned
            /\ DOMAIN resp.value = Fields17
            /\ \A f \in Fields17 :
                  resp.value[f] = <<>> \/ resp.value[f] \in trimmed

\* A line with blanks on both sides has been stored, trimmed.
C7_Witness ==
    /\ ExtractReturned
    /\ doc.pages = <<PageText(Page_Padded)>>
    /\ resp.value.property_address = Line_Address9

(***************************************************************************)
(* C8: when several lines satisfy a field's test, the field holds the      *)
(* trimmed text of the last of them in input order.                        *)
(***************************************************************************)
C8_LastMatchWins ==
    ExtractReturned =>
        LET lines == InputLines
            low == LowerTrimmed(lines)
        IN  \A f \in Fields17 :
                LET hits == MatchingLines(lines, low, f)
                IN  Cardinality(hits) >= 2 =>
                        resp.value[f] =
                            strip(lines[CHOOSE m \in hits : \A n \in hits : n <= m])

\* Two address lines, the later one stored.
C8_Witness ==
    /\ ExtractReturned
    /\ doc.pages = <<PageText(Page_Padded), PageText(Page_Example)>>
    /\ Cardinality(MatchingLines(InputLines, LowerTrimmed(InputLines),
                                  "property_address")) = 2
    /\ resp.value.property_address = Line_Address123

(***************************************************************************)
(* C9: a field is non-empty only if some input line satisfies that field's *)
(* own test; the lines "Address: 123 Main St", "List Price: $450,000",     *)
(* "MLS# 99881234" give those three lines as address, listing price and    *)
(* MLS number and "" in every other field.                                 *)
(***************************************************************************)
C9_OnlyOwnPredicate ==
    ExtractReturned =>
        LET lines == InputLines
            low == LowerTrimmed(lines)
        IN  /\ \A f \in Fields17 :
                  resp.value[f] # <<>> => MatchingLines(lines, low, f) # {}
            /\ lines = <<Line_Address123, Line_ListPrice, Line_Mls>> =>
                  resp.value =
                      [EmptyRecord EXCEPT !.property_address = Line_Address123,
                                          !.listing_price = Line_ListPrice,
                                          !.mls_number = Line_Mls]

C9_Witness ==
    /\ ExtractReturned
    /\ InputLines = <<Line_Address123, Line_ListPrice, Line_Mls>>
    /\ resp.value.mls_number = Line_Mls

(***************************************************************************)
(* C10: when the document cannot be opened or a page that is read fails,   *)
(* the extractor returns the all-empty record (never a partly filled one,  *)
(* never an error).                                                        *)
(***************************************************************************)
C10_FailureGivesEmptyRecord ==
    (resp.kind # "none" /\ ReadFails) =>
        (ExtractReturned /\ resp.value = EmptyRecord)

\* The second page fails after a first page full of matching lines.
C10_Witness ==
    /\ ExtractReturned
    /\ doc.opens
    /\ doc.pages = <<PageText(Page_Example), PageRaise>>
    /\ resp.value = EmptyRecord

(***************************************************************************)
(* agent_review_contract (src/mira_app.py 558-602).                        *)
(***************************************************************************)
valid_actions == {"approve", "reject", "request_changes"}

\* status_map of the review endpoint
review_status_map_changes(action) ==
    CASE action = "approve" -> S_docusign_ready
      [] action = "reject" -> S_needs_attention
      [] action = "request_changes" -> S_awaiting_review

review_status_map(action) ==
    CASE action = "approve" -> S_docusign_ready
      [] action = "reject" -> S_needs_attention
      [] action = "request_changes" -> S_needs_attention

agent_review_result(table, now, lead_id, action, notes) ==
    IF action \notin valid_actions
    THEN [table |-> table, resp |-> Raise("agent_review_contract", "HTTP 400")]
    ELSE LET new_status == review_status_map(action)
         IN  [table |->
                 [i \in 1..Len(table) |->
                     IF i = lead_id
                     THEN [table[i] EXCEPT !.status = Some(new_status),
                                           !.agent_notes = Some(notes),
                                           !.reviewed_at = Some(now)]
                     ELSE table[i]],
              resp |-> Return("agent_review_contract",
                          [lead_id |-> lead_id, action |-> action,
                           new_status |-> new_status, notes |-> notes])]

ActionInputs == {"approve", "reject", "request_changes", "Approve"}

agent_review_contract ==
    \E lead_id \in LeadIds, action \in ActionInputs, notes \in {"fix price"} :
        LET r == agent_review_result(leads, today, lead_id, action, notes)
        IN  /\ leads' = r.table
            /\ resp' = r.resp
            /\ last' = Call("agent_review_contract",
                          [lead_id |-> lead_id, action |-> action, notes |-> notes],
                          leads)
            /\ UNCHANGED <<today, doc, cdate, ctype, tpl, fields, files, uploads, inflight>>

(***************************************************************************)
(* update_status (src/mira_app.py 659-682).                                *)
(***************************************************************************)
valid_statuses ==
    {S_new, S_realist_added, S_contract_drafted, S_awaiting_review,
     S_docusign_ready, S_pending_signatures, S_completed, S_needs_attention}

\* The status stored as it was sent.
update_status_result_as_sent(table, lead_id, new_status) ==
    IF lower(new_status) \notin valid_statuses
    THEN [table |-> table, resp |-> Raise("update_status", "HTTP 400")]
    ELSE [table |-> UpdateRow(table, lead_id, "status", Some(new_status)),
          resp |-> Return("update_status",
                      [updated_id |-> lead_id, new_status |-> new_status])]

update_status_result(table, lead_id, new_status) ==
    IF lower(new_status) \notin valid_statuses
    THEN [table |-> table, resp |-> Raise("update_status", "HTTP 400")]
    ELSE [table |-> UpdateRow(table, lead_id, "status", Some(lower(new_status))),
          resp |-> Return("update_status",
                      [updated_id |-> lead_id, new_status |-> new_status])]

In_COMPLETED == <<"C","O","M","P","L","E","T","E","D">>

NewStatusInputs == {In_COMPLETED, <<" ","n","e","w">>}

update_status ==
    \E lead_id \in LeadIds, new_status \in NewStatusInputs :
        LET r == update_status_result(leads, lead_id, new_status)
        IN  /\ leads' = r.table
            /\ resp' = r.resp
            /\ last' = Call("update_status",
                          [lead_id |-> lead_id, new_status |-> new_status], leads)
            /\ UNCHANGED <<today, doc, cdate, ctype, tpl, fields, files, uploads, inflight>>

(***************************************************************************)
(* upload_realist_data (src/mira_app.py 333-379).  An uploaded file is its *)
(* name, the document its bytes encode and its length.                     *)
(***************************************************************************)
Ext_pdf == <<".","p","d","f">>

\* str.endswith
endswith(s, suffix) ==
    /\ Len(s) >= Len(suffix)
    /\ SubSeq(s, Len(s) - Len(suffix) + 1, Len(s)) = suffix


Doc_listing == [opens |-> TRUE, pages |-> <<PageText(Page_Example)>>]

File_listing ==
    [filename |-> <<"l","i","s","t",".","p","d","f">>, doc |-> Doc_listing,
     size |-> 1]
File_tax ==
    [filename |-> <<"t","a","x",".","p","d","f">>,
     doc |-> [opens |-> TRUE,
              pages |-> <<PageText(Page_Padded), PageText(Page_Tax)>>],
     size |-> 2]
File_scan ==
    [filename |-> <<"s","c","a","n",".","P","D","F">>, doc |-> Doc_listing,
     size |-> 1]

\* UPDATE leads SET realist_data = :realist_data, status = :status WHERE id = :id
store_realist_data(table, lead_id, realist_data) ==
    [i \in 1..Len(table) |->
        IF i = lead_id
        THEN [table[i] EXCEPT !.realist_data = Some(json_dumps(realist_data)),
                              !.status = Some(S_realist_added)]
        ELSE table[i]]

\* The response of a completed upload.
upload_response(lead_id, realist_data) ==
    Return("upload_realist_data", [lead_id |-> lead_id, extracted_data |-> realist_data])

(***************************************************************************)
(* The handler is a coroutine: another request may run wherever it awaits, *)
(* which is at `await file.read()` (the temporary file is already open for *)
(* writing), at the database round trips of the UPDATE, and at `await      *)
(* engine.dispose()` before the temporary file is removed.  A request that *)
(* has opened its file and not answered yet is a record of `uploads`.      *)
(*                                                                         *)
(* The working directory maps the path temp_realist_<lead_id>.pdf to the   *)
(* content of the file of that name, if there is one.  The content is its  *)
(* length and the documents a PDF parser may make of its bytes.  An open   *)
(* handle keeps its file when the path is removed or created again: it is  *)
(* then on an orphan, which no path leads to any more.                     *)
(***************************************************************************)
PipelineFiles == {File_listing, File_scan}
UploadFiles == {File_listing, File_tax, File_scan}

\* extract_realist_data(temp_path) for each document the path may hold.
Extracted ==
    [d \in {Unreadable} \cup {file.doc : file \in UploadFiles} |->
        extract_realist_data(d)]

\* buffer.write(content) through a handle positioned at offset 0: bytes of
\* a longer earlier write stay behind the new ones, and what a parser makes
\* of the mixture is not determined.
write_content(old, file) ==
    IF file.size >= old.size
    THEN [size |-> file.size, reads |-> {file.doc}]
    ELSE [size |-> old.size, reads |-> {Unreadable, file.doc} \cup old.reads]

\* open(temp_path, "wb"): creates the file, or truncates the one that is there
open_wb(fs, lead_id) ==
    [fs EXCEPT ![lead_id] = Some([size |-> 0, reads |-> {Unreadable}])]

\* buffer.write(content) and the close of the handle: a write to an orphan
\* changes no file that has a name.
write_handle(fs, u) ==
    IF u.handle = "file"
    THEN [fs EXCEPT ![u.lead_id] = Some(write_content(@[1], u.file))]
    ELSE fs

\* The documents pdfplumber.open(temp_path) may see: the path is looked up
\* again, and a missing file is a failure of the open.
path_reads(fs, lead_id) ==
    IF fs[lead_id] = Null THEN {Unreadable} ELSE fs[lead_id][1].reads

\* os.remove(temp_path) as the other requests see it: their handles open on
\* the removed file are on an orphan from now on.
orphaned(ups, lead_id) ==
    [k \in 1..Len(ups) |->
        IF ups[k].lead_id = lead_id /\ ups[k].handle = "file"
        THEN [ups[k] EXCEPT !.handle = "orphan"]
        ELSE ups[k]]

\* Lines 339-345: the filename check, open(temp_path, "wb"), await file.read()
upload_start(Ids, Files) ==
    \E lead_id \in Ids, file \in Files :
        IF ~endswith(file.filename, Ext_pdf)
        THEN /\ resp' = Raise("upload_realist_data", "HTTP 400")
             /\ last' = Call("upload_realist_data",
                           [lead_id |-> lead_id, file |-> file], leads)
             /\ UNCHANGED <<today, leads, doc, cdate, ctype, tpl, fields, files,
                            uploads, inflight>>
        ELSE /\ InFlight < MaxRequests
             /\ files' = open_wb(files, lead_id)
             /\ uploads' = Append(uploads,
                               [lead_id |-> lead_id, file |-> file, pc |-> "read",
                                handle |-> "file", record |-> Null])
             /\ UNCHANGED <<today, leads, last, resp, doc, cdate, ctype, tpl,
                            fields, inflight>>

\* Lines 345-355: the bytes are written and the file closed, the path is
\* parsed, and the coroutine awaits the database.
upload_write(p) ==
    /\ uploads[p].pc = "read"
    /\ LET u == uploads[p]
           fs == write_handle(files, u)
       IN  /\ files' = fs
           /\ \E d \in path_reads(fs, u.lead_id) :
                 uploads' = [uploads EXCEPT ![p].pc = "store",
                                            ![p].handle = "closed",
                                            ![p].record = Some(Extracted[d])]
    /\ UNCHANGED <<today, leads, last, resp, doc, cdate, ctype, tpl, fields, inflight>>

\* Lines 355-369: the UPDATE is committed; the coroutine awaits dispose().
upload_store(p) ==
    /\ uploads[p].pc = "store"
    /\ leads' = store_realist_data(leads, uploads[p].lead_id, uploads[p].record[1])
    /\ uploads' = [uploads EXCEPT ![p].pc = "cleanup"]
    /\ last' = Call("upload_realist_data",
                  [lead_id |-> uploads[p].lead_id, file |-> uploads[p].file], leads)
    /\ resp' = NoResp
    /\ UNCHANGED <<today, doc, cdate, ctype, tpl, fields, files, inflight>>

\* Lines 371-379: os.remove(temp_path) and the response.
upload_cleanup(p) ==
    /\ uploads[p].pc = "cleanup"
    /\ LET u == uploads[p]
       IN  /\ IF files[u.lead_id] = Null
              THEN /\ resp' = Raise("upload_realist_data", "FileNotFoundError")
                   /\ files' = files
                   /\ uploads' = RemoveAt(uploads, p)
              ELSE /\ resp' = upload_response(u.lead_id, u.record[1])
                   /\ files' = [files EXCEPT ![u.lead_id] = Null]
                   /\ uploads' = orphaned(RemoveAt(uploads, p), u.lead_id)
           /\ last' = Call("upload_realist_data",
                         [lead_id |-> u.lead_id, file |-> u.file], leads)
    /\ UNCHANGED <<today, leads, doc, cdate, ctype, tpl, fields, inflight>>

upload_realist_data(Ids, Files) ==
    \/ upload_start(Ids, Files)
    \/ \E p \in 1..Len(uploads) : upload_write(p)
    \/ \E p \in 1..Len(uploads) : upload_store(p)
    \/ \E p \in 1..Len(uploads) : upload_cleanup(p)

(***************************************************************************)
(* Specification of the status pipeline: intake, listing upload, contract  *)
(* generation (both endpoints), agent review and status updates, in any    *)
(* order, the steps of the upload and contract requests interleaved with   *)
(* each other and with the other requests.                                 *)
(***************************************************************************)
Init ==
    /\ today = Today0
    /\ leads = <<>>
    /\ last = NoCall
    /\ resp = NoResp
    /\ doc = <<>>
    /\ cdate = Today0
    /\ ctype = "purchase"
    /\ tpl = NoTemplate
    /\ fields = NoFields
    /\ files = NoFiles
    /\ uploads = NoUploads
    /\ inflight = NoInflight

Next ==
    \/ tally_webhook
    \/ upload_realist_data(UploadIds \cap (1..MaxLeads), PipelineFiles)
    \/ generate_contract
    \/ generate_and_download_contract
    \/ agent_review_contract
    \/ update_status

Spec == Init /\ [][Next]_vars

(***************************************************************************)
(* C4: agent review maps approve on a contract_drafted lead to             *)
(* docusign_ready, maps reject and request_changes from any status to      *)
(* needs_attention, and rejects every other action with an error and no    *)
(* new status.                                                             *)
(***************************************************************************)
C4_ReviewAction ==
    last.op = "agent_review_contract" =>
        LET id == last.args.lead_id
            a == last.args.action
            exists == id \in 1..Len(last.leads)
        IN  IF a \in {"approve", "reject", "request_changes"}
            THEN /\ resp.kind = "return"
                 /\ Len(leads) = Len(last.leads)
                 /\ (a = "approve" /\ exists
                        /\ last.leads[id].status = Some(S_contract_drafted))
                        => /\ resp.value.new_status = S_docusign_ready
                           /\ leads[id].status = Some(S_docusign_ready)
                 /\ a \in {"reject", "request_changes"}
                        => /\ resp.value.new_status = S_needs_attention
                           /\ exists => leads[id].status = Some(S_needs_attention)
            ELSE /\ resp.kind = "raise"
                 /\ leads = last.leads

\* A drafted contract has been approved.
C4_Witness ==
    /\ last.op = "agent_review_contract"
    /\ last.args.action = "approve"
    /\ last.args.lead_id \in 1..Len(last.leads)
    /\ last.leads[last.args.lead_id].status = Some(S_contract_drafted)
    /\ leads[last.args.lead_id].status = Some(S_docusign_ready)

(***************************************************************************)
(* C12: when the contract template is missing or corrupt (it does not      *)
(* parse, or has no first page), contract generation for an existing lead  *)
(* gets the demo document from generate_real_contract and returns; the     *)
(* template failure is not raised to the caller.                           *)
(***************************************************************************)
TemplateFails(template) ==
    \/ ~template.exists
    \/ ~template.readable
    \/ template.pages = <<>>

C12_TemplateFailureFallsBack ==
    (/\ last.op = "generate_contract"
     /\ last.args.lead_id \in 1..Len(last.leads)
     /\ TemplateFails(last.args.template))
        => /\ resp.kind = "return"
           /\ resp.value.contract_created.file = "demo_contract"

(***************************************************************************)
(* C13: every lead holds exactly one status and it is one of the eight     *)
(* lower-case canonical values; update_status accepts a vocabulary value   *)
(* in any letter case and stores its lower-case form, and answers a value  *)
(* outside the vocabulary with an error, leaving the table as it was.      *)
(***************************************************************************)
Vocabulary ==
    {S_new, S_realist_added, S_contract_drafted, S_awaiting_review,
     S_docusign_ready, S_pending_signatures, S_completed, S_needs_attention}

\* v is c up to the case of its letters.
CaseVariant(v, c) ==
    /\ Len(v) = Len(c)
    /\ \A k \in 1..Len(v) :
          \/ v[k] = c[k]
          \/ \E n \in 1..26 : /\ {v[k], c[k]} = {UpperChars[n], LowerChars[n]}

C13_CanonicalStatus ==
    /\ \A i \in 1..Len(leads) :
          /\ Len(leads[i].status) = 1
          /\ leads[i].status[1] \in Vocabulary
    /\ last.op = "update_status" =>
          LET id == last.args.lead_id
              v == last.args.new_status
              canon == {c \in Vocabulary : CaseVariant(v, c)}
          IN  IF canon # {}
              THEN /\ resp.kind = "return"
                   /\ id \in 1..Len(leads) => leads[id].status[1] \in canon
                   /\ \A i \in 1..Len(leads) : i # id => leads[i] = last.leads[i]
              ELSE /\ resp.kind = "raise"
                   /\ leads = last.leads

\* An upper-case value has been accepted and stored in lower case.
C13_Witness ==
    /\ last.op = "update_status"
    /\ last.args.new_status = In_COMPLETED
    /\ last.args.lead_id \in 1..Len(leads)
    /\ last.leads[last.args.lead_id].status # Some(S_completed)
    /\ leads[last.args.lead_id].status = Some(S_completed)

(***************************************************************************)
(* C14: each status change made by the pipeline is a legal transition:     *)
(* a listing upload changes the status to realist_added from new, contract *)
(* generation to contract_drafted from new or realist_added, and review    *)
(* action approve to docusign_ready from contract_drafted.                 *)
(***************************************************************************)
StatusChanged(id) ==
    /\ id \in 1..Len(last.leads)
    /\ leads[id].status # last.leads[id].status

C14_LegalTransitions ==
    /\ (last.op = "upload_realist_data" /\ StatusChanged(last.args.lead_id))
          => /\ leads[last.args.lead_id].status = Some(S_realist_added)
             /\ last.leads[last.args.lead_id].status = Some(S_new)
    /\ (/\ last.op \in {"generate_contract", "generate_and_download_contract"}
        /\ StatusChanged(last.args.lead_id))
          => /\ leads[last.args.lead_id].status = Some(S_contract_drafted)
             /\ last.leads[last.args.lead_id].status
                    \in {Some(S_new), Some(S_realist_added)}
    /\ (/\ last.op = "agent_review_contract"
        /\ last.args.action = "approve"
        /\ StatusChanged(last.args.lead_id))
          => /\ leads[last.args.lead_id].status = Some(S_docusign_ready)
             /\ last.leads[last.args.lead_id].status = Some(S_contract_drafted)

(***************************************************************************)
(* dashboard (src/mira_app.py 234-290): the status classifier.  The bucket *)
(* labels are written without their emoji.                                 *)
(***************************************************************************)
BucketNames ==
    <<"New Leads", "Realist Data Added", "Contract Drafted",
      "Awaiting Agent Review", "DocuSign Ready", "Pending Signatures",
      "Completed", "Needs Attention">>

\* normalized = (lead_dict["status"] or "").strip().lower()
normalize_status(status) ==
    lower(strip(IF status = Null THEN <<>> ELSE status[1]))

\* status_map.get(normalized, "Needs Attention")
status_key_no_default(normalized) ==
    CASE normalized = S_new -> "New Leads"
      [] normalized = S_realist_added -> "Realist Data Added"
      [] normalized = S_contract_drafted -> "Contract Drafted"
      [] normalized = S_awaiting_review -> "Awaiting Agent Review"
      [] normalized = S_docusign_ready -> "DocuSign Ready"
      [] normalized = S_pending_signatures -> "Pending Signatures"
      [] normalized = S_completed -> "Completed"
      [] OTHER -> "None"

status_key(normalized) ==
    CASE normalized = S_new -> "New Leads"
      [] normalized = S_realist_added -> "Realist Data Added"
      [] normalized = S_contract_drafted -> "Contract Drafted"
      [] normalized = S_awaiting_review -> "Awaiting Agent Review"
      [] normalized = S_docusign_ready -> "DocuSign Ready"
      [] normalized = S_pending_signatures -> "Pending Signatures"
      [] normalized = S_completed -> "Completed"
      [] OTHER -> "Needs Attention"

\* ORDER BY created_at DESC: NULL sorts first, equal timestamps in any order.
DashboardOrders(table) ==
    LET after(a, b) ==
            \/ table[a].created_at = Null
            \/ /\ table[b].created_at # Null
               /\ table[a].created_at[1] >= table[b].created_at[1]
    IN  {p \in Orders(1..Len(table)) :
            \A i, j \in 1..Len(table) : i < j => after(p[i], p[j])}

\* The loop over raw_leads: leads_by_status[status_key].append(lead_dict);
\* a key that is no bucket raises KeyError.
\* status_key of every row (it does not depend on the order of the rows).
lead_keys(table) ==
    [i \in 1..Len(table) |-> status_key(normalize_status(table[i].status))]

dashboard_result(keys, order) ==
    LET names == {BucketNames[b] : b \in 1..Len(BucketNames)}
    IN  IF \E i \in 1..Len(order) : keys[order[i]] \notin names
        THEN Raise("dashboard", "KeyError")
        ELSE Return("dashboard",
                [b \in 1..Len(BucketNames) |->
                    LET idx == FilterIdx(Len(order), 1,
                                   {i \in 1..Len(order) :
                                       keys[order[i]] = BucketNames[b]})
                    IN  [j \in 1..Len(idx) |-> order[idx[j]]]])

dashboard ==
    LET keys == lead_keys(leads)
    IN  \E order \in DashboardOrders(leads) :
            /\ resp' = dashboard_result(keys, order)
            /\ last' = Call("dashboard", [order |-> order], leads)
            /\ UNCHANGED <<today, leads, doc, cdate, ctype, tpl, fields, files, uploads, inflight>>

(***************************************************************************)
(* Rows that reach the table without the application: seed_pg_db.py        *)
(* inserts three demo leads, and the status column is unconstrained,       *)
(* nullable TEXT (init_db.py), so a direct write stores any text or NULL.  *)
(***************************************************************************)
St_Captured == <<"C","a","p","t","u","r","e","d">>

seed ==
    /\ Len(leads) + 3 <= MaxRows
    /\ \E c \in CreatedDefaults(leads, today) :
          leads' = leads \o <<NewRow(Some(S_new), c),
                              NewRow(Some(<<"c","o","n","t","r","a","c","t"," ",
                                            "g","e","n","e","r","a","t","e","d">>), c),
                              NewRow(Some(<<"D","o","c","u","S","i","g","n"," ",
                                            "R","e","a","d","y">>), c)>>
    /\ last' = Call("seed", <<>>, leads)
    /\ resp' = Return("seed", <<>>)
    /\ UNCHANGED <<today, doc, cdate, ctype, tpl, fields, files, uploads, inflight>>

StoredStatusInputs ==
    {Null,
     Some(<<"D","o","c","u","S","i","g","n","_","R","e","a","d","y">>),
     Some(<<" ","d","o","c","u","s","i","g","n","_","r","e","a","d","y","","\n">>),
     Some(St_Captured)}

direct_insert ==
    /\ Len(leads) < MaxRows
    /\ \E st \in StoredStatusInputs :
          /\ leads' = Append(leads, NewRow(st, Some(today)))
          /\ last' = Call("direct_insert", [status |-> st], leads)
    /\ resp' = Return("direct_insert", <<>>)
    /\ UNCHANGED <<today, doc, cdate, ctype, tpl, fields, files, uploads, inflight>>

(***************************************************************************)
(* Specification of the dashboard: rows arrive from the seed script and    *)
(* from direct writes, and the dashboard is rendered.                      *)
(***************************************************************************)
NextDashboard ==
    \/ seed
    \/ direct_insert
    \/ dashboard

SpecDashboard == Init /\ [][NextDashboard]_vars

DashboardReturned == resp.kind = "return" /\ resp.op = "dashboard"

BucketOf(name) == CHOOSE b \in 1..Len(BucketNames) : BucketNames[b] = name

InBucket(id, name) ==
    \E j \in 1..Len(resp.value[BucketOf(name)]) : resp.value[BucketOf(name)][j] = id

(***************************************************************************)
(* C5 (as stated): a stored status that differs from a canonical status    *)
(* only in letter case and in white space (blanks around it, a blank in    *)
(* place of the underscore, as in "DocuSign Ready") is put in the bucket   *)
(* of that canonical status.                                               *)
(***************************************************************************)
\* Lower case, trimmed, inner blanks written as underscores.
CanonicalForm(s) ==
    LET t == lower(strip(s))
    IN  [i \in 1..Len(t) |-> IF t[i] = " " THEN "_" ELSE t[i]]

CanonicalBucket(c) == status_key(c)

C5_VariantsShareBucket ==
    DashboardReturned =>
        \A id \in 1..Len(leads) :
            (leads[id].status # Null
             /\ CanonicalForm(leads[id].status[1]) \in valid_statuses)
                => InBucket(id, CanonicalBucket(CanonicalForm(leads[id].status[1])))

(***************************************************************************)
(* C6: whatever the stored status, NULL included, the dashboard does not   *)
(* raise and every lead is in exactly one of the eight buckets; a status   *)
(* whose trimmed lower-case form is outside the vocabulary is in Needs     *)
(* Attention; the bucket sizes add up to the number of leads.              *)
(***************************************************************************)
RECURSIVE SumLen(_, _)
SumLen(buckets, n) == IF n = 0 THEN 0 ELSE SumLen(buckets, n - 1) + Len(buckets[n])

C6_EveryLeadInOneBucket ==
    last.op = "dashboard" =>
        /\ DashboardReturned
        /\ Len(resp.value) = 8
        /\ SumLen(resp.value, 8) = Len(leads)
        /\ \A id \in 1..Len(leads) :
              /\ Cardinality({<<b, j>> \in (1..8) \X (1..Len(leads)) :
                                 j <= Len(resp.value[b]) /\ resp.value[b][j] = id}) = 1
              /\ normalize_status(leads[id].status) \notin valid_statuses
                    => InBucket(id, "Needs Attention")

\* A NULL status and an unknown status are both shown under Needs Attention.
C6_Witness ==
    /\ DashboardReturned
    /\ \E i, j \in 1..Len(leads) :
          /\ leads[i].status = Null
          /\ leads[j].status = Some(St_Captured)
          /\ InBucket(i, "Needs Attention")
          /\ InBucket(j, "Needs Attention")

(***************************************************************************)
(* Specification of concurrent uploads: two leads taken in by the webhook, *)
(* no upload in flight, no temporary file; uploads of three files for      *)
(* either lead, up to MaxRequests of them in flight together.              *)
(***************************************************************************)
InitUpload ==
    /\ today = Today0
    /\ leads = <<NewRow(Some(S_new), Some(Today0)), NewRow(Some(S_new), Some(Today0))>>
    /\ last = NoCall
    /\ resp = NoResp
    /\ doc = <<>>
    /\ cdate = Today0
    /\ ctype = "purchase"
    /\ tpl = NoTemplate
    /\ fields = NoFields
    /\ files = NoFiles
    /\ uploads = NoUploads
    /\ inflight = NoInflight

NextUpload == upload_realist_data(UploadIds, UploadFiles)

SpecUpload == InitUpload /\ [][NextUpload]_vars

(***************************************************************************)
(* C15: of two uploads of different documents in flight together, for      *)
(* different leads or for the same lead, each parses, stores and returns   *)
(* the record that extraction of its own document alone gives.             *)
(***************************************************************************)
OwnRecord(file) == Extracted[file.doc]

\* The request that has just stored or answered.
Served == [lead_id |-> last.args.lead_id, file |-> last.args.file]

C15_IndependentUploads ==
    /\ \A p, q \in 1..Len(uploads) :
          (p # q /\ uploads[p].file.doc # uploads[q].file.doc)
             => (uploads[p].pc \in {"store", "cleanup"}
                    => uploads[p].record = Some(OwnRecord(uploads[p].file)))
    /\ (/\ last.op = "upload_realist_data"
        /\ endswith(Served.file.filename, Ext_pdf)
        /\ \E q \in 1..Len(uploads) : uploads[q].file.doc # Served.file.doc)
          => /\ resp.kind = "none"
                  => leads[Served.lead_id].realist_data
                        = Some(json_dumps(OwnRecord(Served.file)))
             /\ resp.kind # "none"
                  => resp = upload_response(Served.lead_id, OwnRecord(Served.file))

====
